---- MODULE Spec2Model ----
(***************************************************************************)
(* FileAI: the document-to-vector pipeline (storeInVectorDB,               *)
(* searchVectorStore, deleteFromVectorDB) over a vector store adapter, and  *)
(* the chat page (handleSubmit and its neighbours) of the dashboard.        *)
(*                                                                         *)
(* A text is modelled by its length in characters; a chunk's content is    *)
(* the half-open interval [lo, hi) of the text it was cut from.  A          *)
(* metadata map or a search filter is a function from the keys it holds to  *)
(* their values.                                                            *)
(***************************************************************************)
EXTENDS Integers, Sequences, FiniteSets, TLC

VARIABLES
    store,      \* the vector store's records, in insertion order
    uuidCount,  \* how many ids randomUUID() has handed out
    last,       \* the last operation: arguments, adapter calls, outcome
    opCount,    \* operations run so far
    pinned,     \* an earlier search call kept for comparison
    \* the chat page (SearchPage) and the chat server behind it
    version,        \* which of the two SearchPage components is mounted
    query,          \* useState: the input's text
    messages,       \* useState: the displayed message list
    isStreaming,    \* useState
    currentChatId,  \* useState: the open chat, or None
    currentChat,    \* first page: data of the chat.getById query, or None
    chats,          \* data of the chat.list query: the ids in the sidebar
    loads,          \* second page: chat.getById requests not yet answered
    handlers,       \* handleSubmit calls suspended at an await
    db,             \* the server's chats: id -> title and messages
    nextChatId,     \* the server's next chat id
    submits,        \* handleSubmit calls started
    \* the files page (FilesPage) and its document.search mutation
    searchQuery,    \* useState: the search input's text
    searchResults,  \* useState: the results shown
    isSearching,    \* useState
    searchStatus    \* status of searchMutation

vecVars == <<store, uuidCount, last, opCount, pinned>>

pageVars == <<version, query, messages, isStreaming, currentChatId,
              currentChat, chats, loads, handlers, db, nextChatId,
              submits>>

filesVars == <<searchQuery, searchResults, isSearching, searchStatus>>

vars == <<vecVars, pageVars, filesVars>>

----------------------------------------------------------------------------
(* Bounds of the model *)

MaxOps == 3

MaxIdemOps == 4

MaxSubmits == 2

MaxLoads == 2

MaxTurns == 3

MaxBusySubmits == 2

MaxTextLen == 2000

MaxOver == 12

(* Program constants *)

CHUNK_SIZE == 1000

CHUNK_OVERLAP == 100

EnumCeiling == 1000

DefaultTopK == 5

TitleLen == 50

ChatTopK == 5

----------------------------------------------------------------------------
(* Input domains *)

None == "-"

Users == {"u1", "u2"}

Docs == {"d1", "d2"}

Queries == {"", "q"}

TopKs == {1, DefaultTopK}

\* lengths of the texts handed to ingest: empty, and the 3000 characters
\* that make 4 chunks
Texts == {0, 3000}

EmptyMap == <<>>

\* {...a, ...b}: the keys of both, b's value where both have the key
Spread(a, b) == b @@ a

Has(m, k) == k \in DOMAIN m

\* a caller-supplied map holding documentId and userId when given
MapOf(doc, user) ==
    Spread(IF doc = None THEN EmptyMap ELSE [documentId |-> doc],
           IF user = None THEN EmptyMap ELSE [userId |-> user])

\* caller metadata: properly tagged, omitting documentId, omitting userId,
\* and carrying chunkIndex/totalChunks keys of its own
Metas ==
    { MapOf("d1", "u1"), MapOf("d1", "u2"), MapOf("d2", "u1"),
      MapOf(None, "u1"), MapOf("d1", None),
      Spread(MapOf("d1", "u1"), [chunkIndex |-> 7, totalChunks |-> 9]) }

\* caller filters of a search: none, a document, another user's id
Filters ==
    { EmptyMap, MapOf("d1", None), MapOf(None, "u2"), MapOf("d1", "u2") }

Min(a, b) == IF a <= b THEN a ELSE b

----------------------------------------------------------------------------
(* The chunker: RecursiveCharacterTextSplitter({chunkSize, chunkOverlap}).  *)
(* Windows of CHUNK_SIZE characters that start CHUNK_SIZE - CHUNK_OVERLAP   *)
(* apart; no chunk for an empty text.                                       *)

splitText(text) ==
    LET step == CHUNK_SIZE - CHUNK_OVERLAP
        n == IF text = 0 THEN 0
             ELSE IF text <= CHUNK_SIZE THEN 1
             ELSE ((text - CHUNK_OVERLAP) + step - 1) \div step
    IN  [i \in 1..n |-> [lo |-> (i - 1) * step,
                         hi |-> Min((i - 1) * step + CHUNK_SIZE, text)]]

\* crypto.randomUUID(): an id no earlier call returned
randomUUID(seed, index) == <<"uuid", seed + index>>

----------------------------------------------------------------------------
(* The vector store adapter: upsert(docs), search(query, k, filter),        *)
(* delete(ids).                                                             *)

\* a record passes a filter when it holds every key of the filter with the
\* filter's value
Matches(rec, filter) ==
    \A k \in DOMAIN filter : Has(rec.metadata, k) /\ rec.metadata[k] = filter[k]

ScoreLevels == <<2, 1, 0>>

\* similarity of a chunk to a query; the empty query ranks nothing
\* (filter-only mode)
Relevance(queryText, content) ==
    IF queryText = "" THEN 0
    ELSE 1 + ((content.lo \div (CHUNK_SIZE - CHUNK_OVERLAP)) % 2)

RECURSIVE Ranked(_, _)
Ranked(hits, level) ==
    IF level > Len(ScoreLevels) THEN <<>>
    ELSE SelectSeq(hits, LAMBDA h : h.score = ScoreLevels[level])
         \o Ranked(hits, level + 1)

AdapterSearch(st, queryText, topK, filter) ==
    LET found == SelectSeq(st, LAMBDA r : Matches(r, filter))
        hits == [i \in 1..Len(found) |->
                    [id |-> found[i].id, content |-> found[i].content,
                     score |-> Relevance(queryText, found[i].content),
                     metadata |-> found[i].metadata]]
        ranked == Ranked(hits, 1)
    IN  SubSeq(ranked, 1, Min(topK, Len(ranked)))

AdapterUpsert(st, docs) ==
    LET Given(id) == CHOOSE j \in 1..Len(docs) :
                        /\ docs[j].id = id
                        /\ \A k \in (j + 1)..Len(docs) : docs[k].id # id
        kept == [i \in 1..Len(st) |->
                    IF \E j \in 1..Len(docs) : docs[j].id = st[i].id
                    THEN docs[Given(st[i].id)] ELSE st[i]]
        fresh == SelectSeq(docs, LAMBDA d : \A i \in 1..Len(st) : st[i].id # d.id)
    IN  kept \o fresh

AdapterDelete(st, ids) == SelectSeq(st, LAMBDA r : r.id \notin ids)

----------------------------------------------------------------------------
(* storeInVectorDB(documentId, text, metadata)                              *)

IngestFaults == {"none", "getVectorStore", "upsert"}

\* as chunkDocuments, the caller's metadata spread last: its chunkIndex and
\* totalChunks keys win
chunkDocuments_callerWins(seed, documentId, text, metadata) ==
    LET chunks == splitText(text)
    IN  [i \in 1..Len(chunks) |->
            [id |-> randomUUID(seed, i),
             content |-> chunks[i],
             metadata |-> Spread([chunkIndex |-> i - 1,
                                  totalChunks |-> Len(chunks)],
                                 metadata)]]

\* as chunkDocuments, the id built from the document id and the index
chunkDocuments_idFromDocument(seed, documentId, text, metadata) ==
    LET chunks == splitText(text)
    IN  [i \in 1..Len(chunks) |->
            [id |-> <<documentId, i - 1>>,
             content |-> chunks[i],
             metadata |-> Spread(metadata,
                                 [chunkIndex |-> i - 1,
                                  totalChunks |-> Len(chunks)])]]

\* as chunkDocuments, the chunks taken from the last to the first
chunkDocuments_reversed(seed, documentId, text, metadata) ==
    LET chunks == splitText(text)
    IN  [i \in 1..Len(chunks) |->
            [id |-> randomUUID(seed, i),
             content |-> chunks[Len(chunks) + 1 - i],
             metadata |-> Spread(metadata,
                                 [chunkIndex |-> i - 1,
                                  totalChunks |-> Len(chunks)])]]

chunkDocuments(seed, documentId, text, metadata) ==
    LET chunks == splitText(text)
    IN  [i \in 1..Len(chunks) |->
            [id |-> randomUUID(seed, i),
             content |-> chunks[i],
             metadata |-> Spread(metadata,
                                 [chunkIndex |-> i - 1,
                                  totalChunks |-> Len(chunks)])]]

\* as storeInVectorDB, a failed upsert caught and logged
storeInVectorDB_swallow(st, seed, documentId, text, metadata, fault) ==
    LET documents == chunkDocuments(seed, documentId, text, metadata)
    IN  IF fault = "getVectorStore"
        THEN [status |-> "raised", result |-> <<>>, store |-> st,
              calls |-> <<[op |-> "getVectorStore", ok |-> FALSE]>>]
        ELSE IF fault = "upsert"
        THEN [status |-> "returned", result |-> <<>>, store |-> st,
              calls |-> <<[op |-> "getVectorStore", ok |-> TRUE],
                          [op |-> "upsert", ok |-> FALSE, docs |-> documents]>>]
        ELSE [status |-> "returned", result |-> <<>>,
              store |-> AdapterUpsert(st, documents),
              calls |-> <<[op |-> "getVectorStore", ok |-> TRUE],
                          [op |-> "upsert", ok |-> TRUE, docs |-> documents]>>]

storeInVectorDB(st, seed, documentId, text, metadata, fault) ==
    LET documents == chunkDocuments(seed, documentId, text, metadata)
    IN  IF fault = "getVectorStore"
        THEN [status |-> "raised", result |-> <<>>, store |-> st,
              calls |-> <<[op |-> "getVectorStore", ok |-> FALSE]>>]
        ELSE IF fault = "upsert"
        THEN [status |-> "raised", result |-> <<>>, store |-> st,
              calls |-> <<[op |-> "getVectorStore", ok |-> TRUE],
                          [op |-> "upsert", ok |-> FALSE, docs |-> documents]>>]
        ELSE [status |-> "returned", result |-> <<>>,
              store |-> AdapterUpsert(st, documents),
              calls |-> <<[op |-> "getVectorStore", ok |-> TRUE],
                          [op |-> "upsert", ok |-> TRUE, docs |-> documents]>>]

----------------------------------------------------------------------------
(* searchVectorStore(query, userId, topK = 5, filter?)                      *)

SearchFaults == {"none", "getVectorStore", "search"}

\* as searchFilter, the caller's filter spread last: its userId wins
searchFilter_callerWins(filter, userId) == Spread([userId |-> userId], filter)

\* as searchFilter, one filter object shared by all calls: the keys of the
\* previous call's filter stay in it
searchFilter_shared(filter, userId) ==
    LET before == IF last.op = "search" /\ Len(last.calls) > 1
                  THEN last.calls[2].filter ELSE EmptyMap
    IN  Spread(Spread(before, filter), [userId |-> userId])

searchFilter(filter, userId) == Spread(filter, [userId |-> userId])

\* as searchVectorStore, the adapter always asked for the default topK
searchVectorStore_fixedTopK(st, queryText, userId, topK, filter, fault) ==
    IF fault = "getVectorStore"
    THEN [status |-> "raised", result |-> <<>>, store |-> st,
          calls |-> <<[op |-> "getVectorStore", ok |-> FALSE]>>]
    ELSE LET f == searchFilter(filter, userId)
             call == [op |-> "search", ok |-> fault # "search",
                      query |-> queryText, topK |-> DefaultTopK, filter |-> f]
         IN  IF fault = "search"
             THEN [status |-> "raised", result |-> <<>>, store |-> st,
                   calls |-> <<[op |-> "getVectorStore", ok |-> TRUE], call>>]
             ELSE [status |-> "returned",
                   result |-> AdapterSearch(st, queryText, DefaultTopK, f),
                   store |-> st,
                   calls |-> <<[op |-> "getVectorStore", ok |-> TRUE], call>>]

searchVectorStore(st, queryText, userId, topK, filter, fault) ==
    IF fault = "getVectorStore"
    THEN [status |-> "raised", result |-> <<>>, store |-> st,
          calls |-> <<[op |-> "getVectorStore", ok |-> FALSE]>>]
    ELSE LET f == searchFilter(filter, userId)
             call == [op |-> "search", ok |-> fault # "search",
                      query |-> queryText, topK |-> topK, filter |-> f]
         IN  IF fault = "search"
             THEN [status |-> "raised", result |-> <<>>, store |-> st,
                   calls |-> <<[op |-> "getVectorStore", ok |-> TRUE], call>>]
             ELSE [status |-> "returned",
                   result |-> AdapterSearch(st, queryText, topK, f), store |-> st,
                   calls |-> <<[op |-> "getVectorStore", ok |-> TRUE], call>>]

----------------------------------------------------------------------------
(* deleteFromVectorDB(documentId)                                           *)

DeleteFaults == {"none", "getVectorStore", "search", "delete"}

\* as enumerateChunkIds, the search left at the default topK
enumerateChunkIds_defaultTopK(st, documentId) ==
    LET results == AdapterSearch(st, "", DefaultTopK, [documentId |-> documentId])
    IN  [i \in 1..Len(results) |-> results[i].id]

\* as enumerateChunkIds, the search without the documentId filter
enumerateChunkIds_anyDocument(st, documentId) ==
    LET results == AdapterSearch(st, "", EnumCeiling, EmptyMap)
    IN  [i \in 1..Len(results) |-> results[i].id]

\* as enumerateChunkIds, the search asked for as many hits as there are
\* records
enumerateChunkIds_noCeiling(st, documentId) ==
    LET results == AdapterSearch(st, "", Len(st), [documentId |-> documentId])
    IN  [i \in 1..Len(results) |-> results[i].id]

\* vectorStore.search("", 1000, { documentId }) and results.map(r => r.id)
enumerateChunkIds(st, documentId) ==
    LET results == AdapterSearch(st, "", EnumCeiling, [documentId |-> documentId])
    IN  [i \in 1..Len(results) |-> results[i].id]

\* as deleteFromVectorDB, the adapter's delete called without looking at
\* how many ids the enumeration returned
deleteFromVectorDB_alwaysDelete(st, documentId, fault) ==
    IF fault = "getVectorStore"
    THEN \* outside the try block: the rejection reaches the caller
         [status |-> "raised", result |-> <<>>, store |-> st,
          calls |-> <<[op |-> "getVectorStore", ok |-> FALSE]>>]
    ELSE LET f == [documentId |-> documentId]
             call == [op |-> "search", ok |-> fault # "search",
                      query |-> "", topK |-> EnumCeiling, filter |-> f,
                      results |-> IF fault = "search" THEN <<>>
                                  ELSE AdapterSearch(st, "", EnumCeiling, f)]
             chunkIds == enumerateChunkIds(st, documentId)
             idSet == {chunkIds[i] : i \in 1..Len(chunkIds)}
             handle == [op |-> "getVectorStore", ok |-> TRUE]
         IN  IF fault = "search"
             THEN [status |-> "returned", result |-> <<>>, store |-> st,
                   calls |-> <<handle, call>>]
             ELSE IF fault = "delete"
             THEN [status |-> "returned", result |-> <<>>, store |-> st,
                   calls |-> <<handle, call,
                               [op |-> "delete", ok |-> FALSE, ids |-> chunkIds]>>]
             ELSE [status |-> "returned", result |-> <<>>,
                   store |-> AdapterDelete(st, idSet),
                   calls |-> <<handle, call,
                               [op |-> "delete", ok |-> TRUE, ids |-> chunkIds]>>]

deleteFromVectorDB(st, documentId, fault) ==
    IF fault = "getVectorStore"
    THEN \* outside the try block: the rejection reaches the caller
         [status |-> "raised", result |-> <<>>, store |-> st,
          calls |-> <<[op |-> "getVectorStore", ok |-> FALSE]>>]
    ELSE LET f == [documentId |-> documentId]
             call == [op |-> "search", ok |-> fault # "search",
                      query |-> "", topK |-> EnumCeiling, filter |-> f,
                      results |-> IF fault = "search" THEN <<>>
                                  ELSE AdapterSearch(st, "", EnumCeiling, f)]
             chunkIds == enumerateChunkIds(st, documentId)
             idSet == {chunkIds[i] : i \in 1..Len(chunkIds)}
             handle == [op |-> "getVectorStore", ok |-> TRUE]
         IN  IF fault = "search"
             THEN [status |-> "returned", result |-> <<>>, store |-> st,
                   calls |-> <<handle, call>>]
             ELSE IF Len(chunkIds) = 0
             THEN [status |-> "returned", result |-> <<>>, store |-> st,
                   calls |-> <<handle, call>>]
             ELSE IF fault = "delete"
             THEN [status |-> "returned", result |-> <<>>, store |-> st,
                   calls |-> <<handle, call,
                               [op |-> "delete", ok |-> FALSE, ids |-> chunkIds]>>]
             ELSE [status |-> "returned", result |-> <<>>,
                   store |-> AdapterDelete(st, idSet),
                   calls |-> <<handle, call,
                               [op |-> "delete", ok |-> TRUE, ids |-> chunkIds]>>]

----------------------------------------------------------------------------
(* The chat page: the two SearchPage components, and the chat server        *)
(* (chat.create, chat.sendMessage, chat.getById, chat.list, chat.delete)    *)
(* they call.  A text is a sequence of characters.                          *)

Versions == {1, 2}

\* currentChatId === null
NoChat == 0

\* a question one character longer than a chat title
Word == [i \in 1..(TitleLen + 1) |-> "a"]

\* what is typed into the input: a blank, and the question after a space
QueryTexts == { <<" ">>, <<" ">> \o Word }

\* the generated answer of a successful turn
Answer == <<"r">>

\* how many sources a turn cites
SourceCounts == {ChatTopK}

RECURSIVE trimStart(_)
trimStart(t) ==
    IF t # <<>> /\ Head(t) = " " THEN trimStart(Tail(t)) ELSE t

RECURSIVE trimEnd(_)
trimEnd(t) ==
    IF t # <<>> /\ t[Len(t)] = " " THEN trimEnd(SubSeq(t, 1, Len(t) - 1)) ELSE t

\* String.prototype.trim
trim(t) == trimEnd(trimStart(t))

\* String.prototype.substring(from, to)
substring(t, from, to) == SubSeq(t, from + 1, Min(to, Len(t)))

UserMessage(content) == [role |-> "user", content |-> content]

\* as AssistantMessage, the sources of the reply dropped
AssistantMessage_noSources(content, sources) ==
    [role |-> "assistant", content |-> content, sources |-> <<>>]

AssistantMessage(content, sources) ==
    [role |-> "assistant", content |-> content, sources |-> sources]

\* the data of a query that has none yet
Undefined == [id |-> NoChat, messages |-> <<>>]

RemoveAt(seq, i) == SubSeq(seq, 1, i - 1) \o SubSeq(seq, i + 1, Len(seq))

\* prev.filter((msg, idx) => !(msg.role === "user" &&
\*                             msg.content === userQuery &&
\*                             idx === prev.length - 1))
removeUserMessage(prev, userQuery) ==
    LET keep == { i \in 1..Len(prev) :
                     ~ ( /\ prev[i].role = "user"
                         /\ prev[i].content = userQuery
                         /\ i - 1 = Len(prev) - 1 ) }
        F[i \in 0..Len(prev)] ==
            IF i = 0 THEN <<>>
            ELSE IF i \in keep THEN Append(F[i - 1], prev[i]) ELSE F[i - 1]
    IN  F[Len(prev)]

\* what the catch block of handleSubmit does to the message list
onSendError(v, prev, userQuery) ==
    IF v = 1 THEN removeUserMessage(prev, userQuery) ELSE prev

\* as syncMessages, the persisted list taken only when nothing is displayed
syncMessages_onlyWhenEmpty(local, dbMessages) ==
    IF Len(local) = 0 THEN dbMessages ELSE local

\* the useEffect on currentChat of the first page
syncMessages(local, dbMessages) ==
    IF Len(dbMessages) > Len(local) \/ Len(local) = 0
    THEN dbMessages ELSE local

PageInit ==
    /\ version \in Versions
    /\ query = <<>>
    /\ messages = <<>>
    /\ isStreaming = FALSE
    /\ currentChatId = NoChat
    /\ currentChat = Undefined
    /\ chats = {}
    /\ loads = <<>>
    /\ handlers = <<>>
    /\ db = (1 :> [title |-> SubSeq(Word, 1, TitleLen),
                   messages |-> <<UserMessage(Word),
                                  AssistantMessage(Answer, <<>>)>>])
    /\ nextChatId = 2
    /\ submits = 0

\* onChange of the input, disabled while isStreaming
TypeQuery ==
    /\ ~isStreaming
    /\ \E t \in QueryTexts : t # query /\ query' = t
    /\ UNCHANGED <<version, messages, isStreaming, currentChatId, currentChat,
                   chats, loads, handlers, db, nextChatId, submits>>

\* the suspended handleSubmit that awaits chat.create
Creating(userQuery, title) ==
    [pc |-> "creating", userQuery |-> userQuery, title |-> title,
     chatId |-> NoChat, before |-> <<>>, phase |-> "-",
     reply |-> [message |-> <<>>, sources |-> <<>>]]

\* the suspended handleSubmit that awaits chat.sendMessage
Sending(userQuery, chatId, before) ==
    [pc |-> "sending", userQuery |-> userQuery, title |-> <<>>,
     chatId |-> chatId, before |-> before, phase |-> "sent",
     reply |-> [message |-> <<>>, sources |-> <<>>]]

\* handleSubmit, up to its first await
SubmitOf(bound) ==
    /\ submits < bound
    /\ trim(query) # <<>>
    /\ ~isStreaming
    /\ submits' = submits + 1
    /\ LET userQuery == IF version = 1 THEN trim(query) ELSE query
       IN  IF currentChatId = NoChat
           THEN /\ handlers' = Append(handlers,
                       Creating(userQuery, substring(userQuery, 0, TitleLen)))
                /\ UNCHANGED <<messages, query, isStreaming>>
           ELSE /\ messages' = Append(messages, UserMessage(userQuery))
                /\ query' = <<>>
                /\ isStreaming' = TRUE
                /\ handlers' = Append(handlers,
                       Sending(userQuery, currentChatId, messages))
    /\ UNCHANGED <<version, currentChatId, currentChat, chats, loads, db,
                   nextChatId>>

Submit == SubmitOf(MaxSubmits)

\* chat.create succeeds: onSuccess (with the chat list it refetches), then
\* the rest of handleSubmit up to the
\* await of chat.sendMessage (first page) or its return (second page, whose
\* closure still holds currentChatId = null)
CreateResolveOf(i) ==
        /\ handlers[i].pc = "creating"
        /\ version = 2 => Len(loads) < MaxLoads
        /\ db' = (nextChatId :> [title |-> handlers[i].title, messages |-> <<>>])
                    @@ db
        /\ nextChatId' = nextChatId + 1
        /\ currentChatId' = nextChatId
        /\ currentChat' = Undefined
        /\ IF version = 1
           THEN /\ messages' = Append(<<>>, UserMessage(handlers[i].userQuery))
                /\ query' = <<>>
                /\ isStreaming' = TRUE
                /\ handlers' = [handlers EXCEPT ![i] =
                       Sending(handlers[i].userQuery, nextChatId, <<>>)]
                /\ UNCHANGED loads
           ELSE /\ handlers' = RemoveAt(handlers, i)
                /\ loads' = Append(loads, nextChatId)
                /\ UNCHANGED <<messages, query, isStreaming>>
        /\ chats' = DOMAIN db'
        /\ UNCHANGED <<version, submits>>

CreateResolve == \E i \in 1..Len(handlers) : CreateResolveOf(i)

\* chat.create fails: mutateAsync rejects and handleSubmit ends there
CreateReject ==
    \E i \in 1..Len(handlers) :
        /\ handlers[i].pc = "creating"
        /\ handlers' = RemoveAt(handlers, i)
        /\ UNCHANGED <<version, query, messages, isStreaming, currentChatId,
                       currentChat, chats, loads, db, nextChatId, submits>>

\* chat.sendMessage on the server, step 2: the user message is appended
ServerAppendUser ==
    \E i \in 1..Len(handlers) :
        /\ handlers[i].pc = "sending"
        /\ handlers[i].phase = "sent"
        /\ handlers[i].chatId \in DOMAIN db
        /\ db' = [db EXCEPT ![handlers[i].chatId].messages =
                     Append(@, UserMessage(handlers[i].userQuery))]
        /\ handlers' = [handlers EXCEPT ![i].phase = "appended"]
        /\ UNCHANGED <<version, query, messages, isStreaming, currentChatId,
                       currentChat, chats, loads, nextChatId, submits>>

\* chat.sendMessage on the server, steps 3 to 6: the assistant message is
\* appended and returned
ServerAnswer ==
    \E i \in 1..Len(handlers), n \in SourceCounts :
        /\ handlers[i].pc = "sending"
        /\ handlers[i].phase = "appended"
        /\ handlers[i].chatId \in DOMAIN db
        /\ LET sources == [k \in 1..n |-> k]
           IN  /\ db' = [db EXCEPT ![handlers[i].chatId].messages =
                            Append(@, AssistantMessage(Answer, sources))]
               /\ handlers' = [handlers EXCEPT
                      ![i].phase = "answered",
                      ![i].reply = [message |-> Answer, sources |-> sources]]
        /\ UNCHANGED <<version, query, messages, isStreaming, currentChatId,
                       currentChat, chats, loads, nextChatId, submits>>

\* the last place of `msg` in `seq`, or 0
LastIndexOf(seq, msg) ==
    IF \E j \in 1..Len(seq) : seq[j] = msg
    THEN CHOOSE j \in 1..Len(seq) :
            seq[j] = msg /\ \A k \in (j + 1)..Len(seq) : seq[k] # msg
    ELSE 0

\* chat.sendMessage fails: the request is lost, the chat is gone, or
\* retrieval or generation fails and the user message is rolled back
ServerFail ==
    \E i \in 1..Len(handlers) :
        /\ handlers[i].pc = "sending"
        /\ handlers[i].phase \in {"sent", "appended"}
        /\ handlers' = [handlers EXCEPT ![i].phase = "failed"]
        /\ IF handlers[i].phase = "appended" /\ handlers[i].chatId \in DOMAIN db
           THEN LET c == handlers[i].chatId
                    at == LastIndexOf(db[c].messages,
                                      UserMessage(handlers[i].userQuery))
                IN  db' = [db EXCEPT ![c].messages =
                              IF at = 0 THEN @ ELSE RemoveAt(@, at)]
           ELSE UNCHANGED db
        /\ UNCHANGED <<version, query, messages, isStreaming, currentChatId,
                       currentChat, chats, loads, nextChatId, submits>>

\* the await of chat.sendMessage resolves: the try block's rest, finally
SendResolveOf(i) ==
        /\ handlers[i].pc = "sending"
        /\ handlers[i].phase = "answered"
        /\ messages' = Append(messages,
               AssistantMessage(handlers[i].reply.message,
                                handlers[i].reply.sources))
        /\ isStreaming' = FALSE
        /\ handlers' = RemoveAt(handlers, i)
        /\ UNCHANGED <<version, query, currentChatId, currentChat, chats,
                       loads, db, nextChatId, submits>>

SendResolve == \E i \in 1..Len(handlers) : SendResolveOf(i)

\* the await of chat.sendMessage rejects: catch, finally
SendRejectOf(i) ==
    /\ handlers[i].pc = "sending"
    /\ handlers[i].phase = "failed"
    /\ messages' = onSendError(version, messages, handlers[i].userQuery)
    /\ isStreaming' = FALSE
    /\ handlers' = RemoveAt(handlers, i)
    /\ UNCHANGED <<version, query, currentChatId, currentChat, chats,
                   loads, db, nextChatId, submits>>

SendReject == \E i \in 1..Len(handlers) : SendRejectOf(i)

\* first page: the chat.getById query delivers the open chat, and the
\* useEffect on currentChat runs
FetchCurrentChat ==
    /\ version = 1
    /\ currentChatId # NoChat
    /\ currentChatId \in DOMAIN db
    /\ LET data == [id |-> currentChatId,
                    messages |-> db[currentChatId].messages]
       IN  /\ data # currentChat
           /\ currentChat' = data
           /\ messages' = syncMessages(messages, data.messages)
    /\ UNCHANGED <<version, query, isStreaming, currentChatId, chats, loads,
                   handlers, db, nextChatId, submits>>

\* second page: a chat.getById request of the useEffect on currentChatId
\* is answered
LoadArrive ==
    \E j \in 1..Len(loads) :
        /\ loads' = RemoveAt(loads, j)
        /\ messages' = IF loads[j] \in DOMAIN db
                       THEN db[loads[j]].messages ELSE messages
        /\ UNCHANGED <<version, query, isStreaming, currentChatId,
                       currentChat, chats, handlers, db, nextChatId,
                       submits>>

\* handleNewChat
NewChat ==
    /\ currentChatId' = NoChat
    /\ messages' = <<>>
    /\ currentChat' = Undefined
    /\ UNCHANGED <<version, query, isStreaming, chats, loads, handlers, db,
                   nextChatId, submits>>

\* onClick of a chat in the sidebar (handleLoadChat)
SelectChat ==
    /\ version = 2 => Len(loads) < MaxLoads
    /\ \E id \in chats :
        /\ id # currentChatId
        /\ currentChatId' = id
        /\ currentChat' = Undefined
        /\ loads' = IF version = 2 THEN Append(loads, id) ELSE loads
    /\ UNCHANGED <<version, query, messages, isStreaming, chats, handlers,
                   db, nextChatId, submits>>

\* onClick of a chat's delete button, and deleteChatMutation's onSuccess
\* (with the chat list it refetches)
DeleteChat ==
    /\ \E id \in chats :
        /\ id \in DOMAIN db
        /\ db' = [c \in DOMAIN db \ {id} |-> db[c]]
        /\ IF currentChatId # NoChat
           THEN /\ currentChatId' = NoChat
                /\ messages' = <<>>
                /\ currentChat' = Undefined
           ELSE UNCHANGED <<currentChatId, messages, currentChat>>
    /\ chats' = DOMAIN db'
    /\ UNCHANGED <<version, query, isStreaming, loads, handlers,
                   nextChatId, submits>>

\* the chat.list query delivers the server's chats
ChatsRefetched ==
    /\ chats # DOMAIN db
    /\ chats' = DOMAIN db
    /\ UNCHANGED <<version, query, messages, isStreaming, currentChatId,
                   currentChat, loads, handlers, db, nextChatId, submits>>

----------------------------------------------------------------------------
(* The files page: handleSearch and the document.search mutation *)

\* the texts typed into the search input
SearchTexts == { <<" ">>, <<" ", "a">> }

\* the results document.search may answer with
SearchData == { <<>>, <<"doc">> }

FilesInit ==
    /\ searchQuery = <<>>
    /\ searchResults = <<>>
    /\ isSearching = FALSE
    /\ searchStatus = "idle"

\* searchMutation's onSuccess: the results and the flag after it
onSuccess(data) ==
    [searchResults |-> data, isSearching |-> FALSE]

onError_keepsFlag(results, searching) ==
    [searchResults |-> results, isSearching |-> searching]

\* searchMutation's onError: the results and the flag after it
onError(results, searching) ==
    [searchResults |-> results, isSearching |-> FALSE]

\* onChange of the search input, disabled while isSearching
TypeSearch ==
    /\ ~isSearching
    /\ \E t \in SearchTexts : t # searchQuery /\ searchQuery' = t
    /\ UNCHANGED <<searchResults, isSearching, searchStatus>>

\* the form's onSubmit; its button is disabled while isSearching
handleSearch ==
    /\ ~isSearching
    /\ trim(searchQuery) # <<>>
    /\ isSearching' = TRUE
    /\ searchStatus' = "pending"
    /\ UNCHANGED <<searchQuery, searchResults>>

\* document.search answers
SearchSucceed ==
    /\ searchStatus = "pending"
    /\ \E data \in SearchData :
          LET after == onSuccess(data)
          IN  /\ searchResults' = after.searchResults
              /\ isSearching' = after.isSearching
    /\ searchStatus' = "success"
    /\ UNCHANGED searchQuery

\* document.search fails
SearchFail ==
    /\ searchStatus = "pending"
    /\ LET after == onError(searchResults, isSearching)
       IN  /\ searchResults' = after.searchResults
           /\ isSearching' = after.isSearching
    /\ searchStatus' = "error"
    /\ UNCHANGED searchQuery

----------------------------------------------------------------------------
(* The vector pipeline as a state machine: each action is one call.         *)

NoOp == [op |-> "none"]

VecInit ==
    /\ store = <<>>
    /\ uuidCount = 0
    /\ last = NoOp
    /\ opCount = 0
    /\ pinned = NoOp

IngestOf(bound, D, T, M, F) ==
    /\ opCount < bound
    /\ \E d \in D, text \in T, meta \in M, fault \in F :
         LET r == storeInVectorDB(store, uuidCount, d, text, meta, fault)
         IN  /\ store' = r.store
             /\ uuidCount' = uuidCount + Len(splitText(text))
             /\ last' = [op |-> "ingest", documentId |-> d, text |-> text,
                         metadata |-> meta, fault |-> fault,
                         status |-> r.status, result |-> r.result,
                         calls |-> r.calls]
    /\ opCount' = opCount + 1

SearchOf(bound, Q, U, K, Fl, F) ==
    /\ opCount < bound
    /\ \E q \in Q, u \in U, k \in K, f \in Fl, fault \in F :
         LET r == searchVectorStore(store, q, u, k, f, fault)
         IN  /\ store' = r.store
             /\ last' = [op |-> "search", query |-> q, userId |-> u,
                         topK |-> k, filter |-> f, fault |-> fault,
                         status |-> r.status, result |-> r.result,
                         calls |-> r.calls]
    /\ opCount' = opCount + 1
    /\ UNCHANGED uuidCount

DeleteOf(bound, D, F) ==
    /\ opCount < bound
    /\ \E d \in D, fault \in F :
         LET r == deleteFromVectorDB(store, d, fault)
         IN  /\ store' = r.store
             /\ last' = [op |-> "delete", documentId |-> d, fault |-> fault,
                         status |-> r.status, result |-> r.result,
                         calls |-> r.calls]
    /\ opCount' = opCount + 1
    /\ UNCHANGED uuidCount

Ingest ==
    /\ IngestOf(MaxOps, Docs, Texts, Metas, IngestFaults)
    /\ UNCHANGED <<pinned, pageVars, filesVars>>

Search ==
    /\ SearchOf(MaxOps, Queries, Users, TopKs, Filters, SearchFaults)
    /\ UNCHANGED <<pinned, pageVars, filesVars>>

Delete ==
    /\ DeleteOf(MaxOps, Docs, DeleteFaults)
    /\ UNCHANGED <<pinned, pageVars, filesVars>>

Init == VecInit /\ PageInit /\ FilesInit /\ version = 1

Next == Ingest \/ Search \/ Delete

Spec == Init /\ [][Next]_vars

----------------------------------------------------------------------------
(* The same machine over a few fixed arguments, keeping one earlier search  *)
(* call (its arguments, the store it ran against, its result) to compare    *)
(* later calls with.                                                        *)

IdemMetas == { MapOf(None, "u1"), MapOf("d1", "u1") }

IdemFilters == { EmptyMap, MapOf("d1", None) }

PinOf(l, st, n) ==
    [op |-> "search", query |-> l.query, userId |-> l.userId,
     topK |-> l.topK, filter |-> l.filter, store |-> st,
     result |-> l.result, at |-> n]

IdemIngest ==
    /\ IngestOf(MaxIdemOps, {"d1"}, {3000}, IdemMetas, {"none"})
    /\ UNCHANGED <<pinned, pageVars, filesVars>>

IdemSearch ==
    /\ SearchOf(MaxIdemOps, {"q"}, {"u1"}, TopKs, IdemFilters, {"none", "search"})
    /\ \/ UNCHANGED pinned
       \/ /\ last'.status = "returned"
          /\ pinned' = PinOf(last', store, opCount')
    /\ UNCHANGED <<pageVars, filesVars>>

IdemDelete ==
    /\ DeleteOf(MaxIdemOps, {"d1"}, {"none"})
    /\ UNCHANGED <<pinned, pageVars, filesVars>>

IdemNext == IdemIngest \/ IdemSearch \/ IdemDelete

SpecIdem == Init /\ [][IdemNext]_vars

----------------------------------------------------------------------------
(* One ingest of a text of any length up to MaxTextLen                      *)

SplitTexts == 0..MaxTextLen

SplitIngest ==
    /\ last = NoOp
    /\ IngestOf(opCount + 1, {"d1"}, SplitTexts, {MapOf("d1", "u1")},
                {"none", "upsert"})
    /\ UNCHANGED <<pinned, pageVars, filesVars>>

SpecSplit == Init /\ [][SplitIngest]_vars

----------------------------------------------------------------------------
(* One document of about EnumCeiling chunks is ingested, then deleted       *)

\* the length of a text that makes n chunks
TextOf(n) == (n - 1) * (CHUNK_SIZE - CHUNK_OVERLAP) + CHUNK_SIZE

CeilingTexts ==
    { TextOf(n) : n \in (EnumCeiling - MaxOver)..(EnumCeiling + MaxOver) }

CeilingIngest ==
    /\ last = NoOp
    /\ IngestOf(opCount + 1, {"d1"}, CeilingTexts, {MapOf("d1", "u1")},
                {"none"})
    /\ UNCHANGED <<pinned, pageVars, filesVars>>

CeilingDelete ==
    /\ last.op = "ingest"
    /\ DeleteOf(opCount + 1, {"d1"}, DeleteFaults)
    /\ UNCHANGED <<pinned, pageVars, filesVars>>

CeilingNext == CeilingIngest \/ CeilingDelete

SpecCeiling == Init /\ [][CeilingNext]_vars

----------------------------------------------------------------------------
(* The chat page as a state machine *)

ChatNext ==
    \/ TypeQuery /\ UNCHANGED <<vecVars, filesVars>>
    \/ Submit /\ UNCHANGED <<vecVars, filesVars>>
    \/ CreateResolve /\ UNCHANGED <<vecVars, filesVars>>
    \/ CreateReject /\ UNCHANGED <<vecVars, filesVars>>
    \/ ServerAppendUser /\ UNCHANGED <<vecVars, filesVars>>
    \/ ServerAnswer /\ UNCHANGED <<vecVars, filesVars>>
    \/ ServerFail /\ UNCHANGED <<vecVars, filesVars>>
    \/ SendResolve /\ UNCHANGED <<vecVars, filesVars>>
    \/ SendReject /\ UNCHANGED <<vecVars, filesVars>>
    \/ FetchCurrentChat /\ UNCHANGED <<vecVars, filesVars>>
    \/ LoadArrive /\ UNCHANGED <<vecVars, filesVars>>
    \/ NewChat /\ UNCHANGED <<vecVars, filesVars>>
    \/ SelectChat /\ UNCHANGED <<vecVars, filesVars>>
    \/ DeleteChat /\ UNCHANGED <<vecVars, filesVars>>
    \/ ChatsRefetched /\ UNCHANGED <<vecVars, filesVars>>

ChatInit == VecInit /\ PageInit /\ FilesInit

SpecChat == ChatInit /\ [][ChatNext]_vars

----------------------------------------------------------------------------
(* The first page over one more submit, without the sidebar's new-chat and  *)
(* delete buttons and with chat.create succeeding                           *)

TurnsInit == ChatInit /\ version = 1

TurnsNext ==
    \/ TypeQuery /\ UNCHANGED <<vecVars, filesVars>>
    \/ SubmitOf(MaxTurns) /\ UNCHANGED <<vecVars, filesVars>>
    \/ CreateResolve /\ UNCHANGED <<vecVars, filesVars>>
    \/ ServerAppendUser /\ UNCHANGED <<vecVars, filesVars>>
    \/ ServerAnswer /\ UNCHANGED <<vecVars, filesVars>>
    \/ ServerFail /\ UNCHANGED <<vecVars, filesVars>>
    \/ SendResolve /\ UNCHANGED <<vecVars, filesVars>>
    \/ SendReject /\ UNCHANGED <<vecVars, filesVars>>
    \/ FetchCurrentChat /\ UNCHANGED <<vecVars, filesVars>>
    \/ SelectChat /\ UNCHANGED <<vecVars, filesVars>>

SpecTurns == TurnsInit /\ [][TurnsNext]_vars

----------------------------------------------------------------------------
(* The first page's submits and the files page's searches, with every       *)
(* request settling: the server answers or fails each request it holds and  *)
(* the page runs each continuation that has become ready                    *)

BusyInit == ChatInit /\ version = 1

ChatSubmit == SubmitOf(MaxBusySubmits) /\ UNCHANGED <<vecVars, filesVars>>

ChatCreateSettles ==
    (CreateResolve \/ CreateReject) /\ UNCHANGED <<vecVars, filesVars>>

ChatSendArrives == ServerAppendUser /\ UNCHANGED <<vecVars, filesVars>>

ChatSendSettles ==
    (ServerAnswer \/ ServerFail) /\ UNCHANGED <<vecVars, filesVars>>

ChatSendReturns ==
    (SendResolve \/ SendReject) /\ UNCHANGED <<vecVars, filesVars>>

FileSearchSettles ==
    (SearchSucceed \/ SearchFail) /\ UNCHANGED <<vecVars, pageVars>>

BusyNext ==
    \/ TypeQuery /\ UNCHANGED <<vecVars, filesVars>>
    \/ ChatSubmit
    \/ ChatCreateSettles
    \/ ChatSendArrives
    \/ ChatSendSettles
    \/ ChatSendReturns
    \/ TypeSearch /\ UNCHANGED <<vecVars, pageVars>>
    \/ handleSearch /\ UNCHANGED <<vecVars, pageVars>>
    \/ FileSearchSettles

SpecBusy ==
    /\ BusyInit
    /\ [][BusyNext]_vars
    /\ WF_vars(ChatCreateSettles)
    /\ WF_vars(ChatSendArrives)
    /\ WF_vars(ChatSendSettles)
    /\ WF_vars(ChatSendReturns)
    /\ WF_vars(FileSearchSettles)

----------------------------------------------------------------------------
(* Properties of the vector pipeline *)

\* the adapter calls of the last operation that are `op`
CallsOf(op) == SelectSeq(last.calls, LAMBDA c : c.op = op)

\* the step is a call of `op`
StepOf(op) == opCount' = opCount + 1 /\ last'.op = op

\* how many records of `st` are tagged with document d
TaggedCount(st, d) ==
    Len(SelectSeq(st, LAMBDA r : Matches(r, [documentId |-> d])))

\* C1: tenant isolation. Whatever extra filter the caller of
\* searchVectorStore supplies, also one with a userId key of its own, the
\* adapter is called with a filter whose userId is the caller's user, and
\* no returned result is tagged with another user.
C1_TenantIsolation ==
    last.op = "search" =>
        /\ \A i \in 1..Len(last.calls) :
              last.calls[i].op = "search" =>
                 /\ Has(last.calls[i].filter, "userId")
                 /\ last.calls[i].filter.userId = last.userId
        /\ \A i \in 1..Len(last.result) :
              /\ Has(last.result[i].metadata, "userId")
              /\ last.result[i].metadata.userId = last.userId

\* a search whose extra filter names another user, against a store that
\* holds that user's chunks, returned results
C1_Witness ==
    /\ last.op = "search"
    /\ last.status = "returned"
    /\ Has(last.filter, "userId")
    /\ last.filter.userId # last.userId
    /\ Len(last.result) > 0
    /\ \E i \in 1..Len(store) :
          /\ Has(store[i].metadata, "userId")
          /\ store[i].metadata.userId = last.filter.userId

\* C2: deleteFromVectorDB returns normally under every adapter failure:
\* the handle cannot be obtained, the enumeration search fails, the delete
\* fails.
C2_DeleteNeverRaises ==
    last.op = "delete" => last.status = "returned"

\* C3: with a working adapter and at most EnumCeiling chunks tagged d,
\* after deleteFromVectorDB(d) every search filtered by {documentId: d}
\* is empty, whatever was ingested before.
C3_DeleteThenSearchEmpty ==
    [][ ( /\ StepOf("delete")
          /\ last'.fault = "none"
          /\ TaggedCount(store, last'.documentId) <= EnumCeiling )
        => \A q \in Queries, u \in Users, k \in TopKs :
              searchVectorStore(store', q, u, k,
                                [documentId |-> last'.documentId],
                                "none").result = <<>> ]_vars

\* a delete removed the chunks of its document that two ingests had stored
C3_Witness ==
    /\ last.op = "delete"
    /\ last.fault = "none"
    /\ Len(CallsOf("delete")) = 1
    /\ Len(CallsOf("delete")[1].ids) > DefaultTopK
    /\ TaggedCount(store, last.documentId) = 0

\* C4: an ingest whose text yields no chunk fails (EmptyDocumentError) and
\* never calls the adapter's upsert.
C4_EmptyDocumentRejected ==
    (last.op = "ingest" /\ Len(splitText(last.text)) = 0) =>
        /\ last.status = "raised"
        /\ Len(CallsOf("upsert")) = 0

\* C6: every record an ingest upserts carries the documentId argument of
\* the ingest and a userId, whatever metadata the caller passed.
C6_ChunksCarryDocumentAndUser ==
    last.op = "ingest" =>
        \A c \in 1..Len(last.calls) :
            last.calls[c].op = "upsert" =>
                \A i \in 1..Len(last.calls[c].docs) :
                    LET md == last.calls[c].docs[i].metadata
                    IN  /\ Has(md, "documentId")
                        /\ md.documentId = last.documentId
                        /\ Has(md, "userId")

\* C7: an ingest of n chunks upserts exactly n records, the i-th chunk in
\* document order with chunkIndex i (from 0) and every record with
\* totalChunks n.
C7_ChunkIndexing ==
    (last.op = "ingest" /\ last.fault # "getVectorStore") =>
        LET chunks == splitText(last.text)
            ups == CallsOf("upsert")
        IN  /\ Len(ups) = 1
            /\ Len(ups[1].docs) = Len(chunks)
            /\ \A i \in 1..Len(chunks) :
                  /\ ups[1].docs[i].content = chunks[i]
                  /\ ups[1].docs[i].metadata.chunkIndex = i - 1
                  /\ ups[1].docs[i].metadata.totalChunks = Len(chunks)
            /\ last.status = "returned" =>
                  SubSeq(store, Len(store) - Len(chunks) + 1, Len(store))
                     = ups[1].docs

\* an ingest of four chunks whose caller metadata held a chunkIndex of its
\* own was stored
C7_Witness ==
    /\ last.op = "ingest"
    /\ last.status = "returned"
    /\ Len(splitText(last.text)) = 4
    /\ Has(last.metadata, "chunkIndex")
    /\ Len(store) >= 4

\* C8: chunk ids are fresh on every ingest. An ingest that returns leaves
\* every earlier record in place and unmodified, grows the store by exactly
\* its number of chunks, and all ids in the store stay pairwise distinct.
C8_FreshChunkIds ==
    [][ (StepOf("ingest") /\ last'.status = "returned")
        => /\ Len(store') = Len(store) + Len(splitText(last'.text))
           /\ SubSeq(store', 1, Len(store)) = store
           /\ \A i, j \in 1..Len(store') :
                 i # j => store'[i].id # store'[j].id ]_vars

\* the same document was ingested again with the same text and metadata
\* while its earlier chunks were still stored
C8_Witness ==
    /\ last.op = "ingest"
    /\ last.status = "returned"
    /\ Len(splitText(last.text)) > 0
    /\ TaggedCount(store, last.documentId) = 2 * Len(splitText(last.text))
    /\ \E i \in 1..Len(store) :
          /\ store[i].content = store[Len(store)].content
          /\ store[i].metadata = store[Len(store)].metadata
          /\ i # Len(store)

\* C9: storeInVectorDB and searchVectorStore call their adapter operation
\* once per call, with all chunks of an ingest in the one upsert; a failed
\* adapter call is raised to the caller and a successful one is not.
C9_SingleCallErrorsSurface ==
    /\ last.op = "ingest" =>
          /\ Len(CallsOf("upsert")) = (IF last.fault = "getVectorStore" THEN 0 ELSE 1)
          /\ \A i \in 1..Len(CallsOf("upsert")) :
                Len(CallsOf("upsert")[i].docs) = Len(splitText(last.text))
          /\ Len(CallsOf("search")) = 0
          /\ last.status = "raised"
                <=> \E i \in 1..Len(last.calls) : ~last.calls[i].ok
    /\ last.op = "search" =>
          /\ Len(CallsOf("search")) = (IF last.fault = "getVectorStore" THEN 0 ELSE 1)
          /\ Len(CallsOf("upsert")) = 0
          /\ last.status = "raised"
                <=> \E i \in 1..Len(last.calls) : ~last.calls[i].ok

\* an ingest of several chunks whose upsert failed was raised to the caller
C9_Witness ==
    /\ last.op = "ingest"
    /\ last.fault = "upsert"
    /\ last.status = "raised"
    /\ Len(splitText(last.text)) > 1
    /\ Len(CallsOf("upsert")) = 1

\* C10: searchVectorStore keeps no state between calls. A call leaves the
\* store as it is, asks the adapter once, and returns what an earlier call
\* with the same arguments returned against the same store contents.
C10_SearchStateless ==
    [][ StepOf("search")
        => /\ store' = store
           /\ last'.status = "returned" => Len(SelectSeq(last'.calls,
                                               LAMBDA c : c.op = "search")) = 1
           /\ ( /\ last'.status = "returned"
                /\ pinned.op = "search"
                /\ pinned.query = last'.query
                /\ pinned.userId = last'.userId
                /\ pinned.topK = last'.topK
                /\ pinned.filter = last'.filter
                /\ pinned.store = store )
              => last'.result = pinned.result ]_vars

\* a search returned results against the store contents that an earlier
\* call with the same arguments had run against
C10_Witness ==
    /\ last.op = "search"
    /\ last.status = "returned"
    /\ pinned.op = "search"
    /\ pinned.query = last.query
    /\ pinned.topK = last.topK
    /\ pinned.filter = last.filter
    /\ pinned.store = store
    /\ pinned.at < opCount
    /\ Len(last.result) > 0

\* C11: for every positive topK, searchVectorStore hands the query and
\* topK to the adapter as they were given, and returns at most topK
\* results in descending order of relevance score.
C11_TopKOrdered ==
    (last.op = "search" /\ last.topK > 0) =>
        /\ \A i \in 1..Len(last.calls) :
              last.calls[i].op = "search" =>
                 /\ last.calls[i].query = last.query
                 /\ last.calls[i].topK = last.topK
        /\ Len(last.result) <= last.topK
        /\ \A i, j \in 1..Len(last.result) :
              i < j => last.result[i].score >= last.result[j].score

\* a search with topK 1 returned one result although several records of
\* differing scores passed its filter
C11_Witness ==
    /\ last.op = "search"
    /\ last.status = "returned"
    /\ last.query # ""
    /\ last.topK = 1
    /\ Len(last.result) = 1
    /\ LET all == AdapterSearch(store, last.query, EnumCeiling,
                                searchFilter(last.filter, last.userId))
       IN  /\ Len(all) > DefaultTopK
           /\ all[1].score > all[Len(all)].score
           /\ last.result[1] = all[1]

\* the chunk contents glued in order, each without the part the chunks
\* before it already gave: the length of the text they make, or -1 when a
\* chunk leaves a gap, repeats text only, or starts before its predecessor
Glue(contents) ==
    LET F[i \in 0..Len(contents)] ==
            IF i = 0 THEN 0
            ELSE IF \/ F[i - 1] = -1
                    \/ contents[i].lo > F[i - 1]
                    \/ contents[i].hi <= F[i - 1]
                    \/ (i > 1 /\ contents[i].lo <= contents[i - 1].lo)
                 THEN -1
                 ELSE contents[i].hi
    IN  F[Len(contents)]

\* C16: the chunks of an ingest, in the order they are upserted and with
\* the overlapping parts removed, make the original text: nothing lost,
\* repeated or out of order.
C16_ChunksReconstructText ==
    last.op = "ingest" =>
        \A c \in 1..Len(last.calls) :
            last.calls[c].op = "upsert" =>
                Glue([i \in 1..Len(last.calls[c].docs) |->
                         last.calls[c].docs[i].content]) = last.text

\* a text was stored as three chunks, the last one shorter than the others
C16_Witness ==
    /\ last.op = "ingest"
    /\ last.status = "returned"
    /\ Len(store) = 3
    /\ store[1].content.hi > store[2].content.lo
    /\ store[3].content.hi - store[3].content.lo < CHUNK_SIZE
    /\ store[3].content.hi = last.text

\* the ids of a sequence of records or hits
IdsOf(recs) == { recs[i].id : i \in 1..Len(recs) }

\* C17: deleteFromVectorDB(d) enumerates with the filter {documentId: d}
\* alone, no userId in it, and removes exactly the chunks the enumeration
\* returns: every chunk tagged d whichever user it is tagged with, and no
\* chunk whose documentId differs from d; what it leaves stays as it was.
C17_DeleteFrame ==
    [][ StepOf("delete") =>
           LET d == last'.documentId
               enumerated == AdapterSearch(store, "", EnumCeiling,
                                           [documentId |-> d])
               gone == IdsOf(store) \ IdsOf(store')
           IN  /\ \A c \in 1..Len(last'.calls) :
                     last'.calls[c].op = "search" =>
                        last'.calls[c].filter = [documentId |-> d]
               /\ \A i \in 1..Len(store) :
                     store[i].id \in gone =>
                        /\ Has(store[i].metadata, "documentId")
                        /\ store[i].metadata.documentId = d
               /\ store' = SelectSeq(store, LAMBDA r : r.id \notin gone)
               /\ gone \in {{}, IdsOf(enumerated)}
               /\ last'.fault = "none" => gone = IdsOf(enumerated)
               /\ \A i \in 1..Len(store) :
                     ( /\ last'.fault = "none"
                       /\ Len(enumerated) < EnumCeiling
                       /\ Has(store[i].metadata, "documentId")
                       /\ store[i].metadata.documentId = d )
                     => store[i].id \in gone ]_vars

\* a delete enumerated chunks of its document tagged with two users and
\* removed them all
C17_Witness ==
    /\ last.op = "delete"
    /\ last.fault = "none"
    /\ Len(CallsOf("search")) = 1
    /\ LET results == CallsOf("search")[1].results
       IN  /\ \E i, j \in 1..Len(results) :
                 /\ Has(results[i].metadata, "userId")
                 /\ Has(results[j].metadata, "userId")
                 /\ results[i].metadata.userId # results[j].metadata.userId
           /\ IdsOf(results) \cap IdsOf(store) = {}
    /\ TaggedCount(store, last.documentId) = 0

\* the adapter calls of the call record l that are `op`
CallsIn(l, op) == SelectSeq(l.calls, LAMBDA c : c.op = op)

\* C18: deleteFromVectorDB calls the adapter's delete exactly when the
\* enumeration search succeeded and returned at least one id, then once
\* and with the enumerated ids; when the enumeration fails or returns
\* nothing, delete is not called and the store stays as it is.
C18_DeleteCalledIffIds ==
    [][ StepOf("delete") =>
           LET searches == CallsIn(last', "search")
               deletes == CallsIn(last', "delete")
               found == Len(searches) = 1 /\ searches[1].ok
                           /\ Len(searches[1].results) > 0
           IN  /\ Len(searches) <= 1
               /\ Len(deletes) = (IF found THEN 1 ELSE 0)
               /\ found => deletes[1].ids =
                              [i \in 1..Len(searches[1].results) |->
                                  searches[1].results[i].id]
               /\ ~found => store' = store ]_vars

\* a delete whose enumeration found nothing in a store that holds chunks
\* made no delete call
C18_Witness ==
    /\ last.op = "delete"
    /\ last.fault = "none"
    /\ Len(CallsOf("search")) = 1
    /\ CallsOf("search")[1].ok
    /\ CallsOf("search")[1].results = <<>>
    /\ Len(CallsOf("delete")) = 0
    /\ Len(store) > 0

\* C19: the enumeration ceiling. One deleteFromVectorDB(d) removes at most
\* EnumCeiling chunks; when d has N > EnumCeiling chunks stored and the
\* adapter works, N - EnumCeiling chunks of d stay in the store, and the
\* call returns normally with nothing to tell them by.
C19_CeilingLeak ==
    [][ StepOf("delete") =>
           LET d == last'.documentId
               N == TaggedCount(store, d)
           IN  /\ Len(store) - Len(store') <= EnumCeiling
               /\ (last'.fault = "none" /\ N > EnumCeiling) =>
                     /\ TaggedCount(store', d) = N - EnumCeiling
                     /\ last'.status = "returned"
                     /\ last'.result = <<>> ]_vars

\* a delete of a document of more than EnumCeiling chunks removed
\* EnumCeiling of them and left the others
C19_Witness ==
    /\ last.op = "delete"
    /\ last.fault = "none"
    /\ last.status = "returned"
    /\ Len(CallsOf("delete")) = 1
    /\ Len(CallsOf("delete")[1].ids) = EnumCeiling
    /\ TaggedCount(store, last.documentId) > 1
    /\ IdsOf(store) \cap { CallsOf("delete")[1].ids[i] : i \in 1..EnumCeiling } = {}

----------------------------------------------------------------------------
(* Properties of the chat page *)
\* the handleSubmit calls suspended at the await of chat.sendMessage for
\* chat c with text q
SendsTo(hs, c, q) ==
    { j \in 1..Len(hs) :
         hs[j].pc = "sending" /\ hs[j].chatId = c /\ hs[j].userQuery = q }

\* C12: a submit without an active chat creates exactly one chat, titled
\* with the first TitleLen characters of the message, and goes on to send
\* the message to that chat; a submit with an active chat creates none.
C12_SubmitCreatesChat ==
    [][ /\ \A i \in 1..Len(handlers) :
              CreateResolveOf(i) =>
                 /\ DOMAIN db' = DOMAIN db \cup {nextChatId}
                 /\ nextChatId \notin DOMAIN db
                 /\ db'[nextChatId].title =
                       substring(handlers[i].userQuery, 0, TitleLen)
                 /\ Cardinality(SendsTo(handlers', nextChatId,
                                        handlers[i].userQuery))
                       = 1 + Cardinality(SendsTo(handlers, nextChatId,
                                                 handlers[i].userQuery))
        /\ (Submit /\ currentChatId # NoChat) =>
              /\ db' = db
              /\ \A j \in 1..Len(handlers') : handlers'[j].pc # "creating"
                    \/ (j <= Len(handlers) /\ handlers'[j] = handlers[j])
      ]_vars


\* C5: rollback of a failed turn. When chat.sendMessage fails and the list
\* still is the list from before the turn with the turn's user message at
\* its end, the catch block leaves exactly the list from before the turn:
\* it removes that last message and no earlier one with the same content.
C5_RollbackOnFailure ==
    [][ \A i \in 1..Len(handlers) :
           ( /\ SendRejectOf(i)
             /\ messages = Append(handlers[i].before,
                                  UserMessage(handlers[i].userQuery)) )
           => messages' = handlers[i].before ]_vars


\* the handleSubmit calls that reach the await of chat.sendMessage in this
\* step
Started(hs, hs2) ==
    { j \in 1..Len(hs2) :
         /\ hs2[j].pc = "sending"
         /\ hs2[j].phase = "sent"
         /\ \/ Len(hs2) = Len(hs) + 1 /\ j = Len(hs2)
            \/ Len(hs2) = Len(hs) /\ hs[j].pc = "creating" }

IsPrefix(s, t) == Len(s) <= Len(t) /\ SubSeq(t, 1, Len(s)) = s

\* C14: the messages of a chat are append-only. While the same chat stays
\* open and every turn in flight is a turn on that chat, every update of
\* the displayed list keeps the list from before as a prefix, except the
\* catch block of a failed turn, which removes the turn's user message from
\* the end.
C14_AppendOnly ==
    [][ ( /\ currentChatId # NoChat
          /\ currentChatId' = currentChatId
          /\ \A i \in 1..Len(handlers) :
                handlers[i].pc = "sending" =>
                   handlers[i].chatId = currentChatId )
        => \/ IsPrefix(messages, messages')
           \/ \E i \in 1..Len(handlers) :
                 /\ SendRejectOf(i)
                 /\ messages = Append(messages',
                                      UserMessage(handlers[i].userQuery))
      ]_vars


\* C15: appends to one chat are serialized: no two chat.sendMessage calls
\* for the same chat are in flight at the same time.
C15_SendsSerialized ==
    \A i, j \in 1..Len(handlers) :
        ( /\ i # j
          /\ handlers[i].pc = "sending"
          /\ handlers[j].pc = "sending" )
        => handlers[i].chatId # handlers[j].chatId


\* the open chat's persisted record has been loaded: the first page holds
\* the chat.getById data of the open chat as persisted now, the second page
\* has no chat.getById request unanswered
Loaded ==
    /\ currentChatId \in DOMAIN db
    /\ IF version = 1
       THEN currentChat = [id |-> currentChatId,
                           messages |-> db[currentChatId].messages]
       ELSE loads = <<>>

\* C20: the persisted chat is authoritative. Whenever a chat is open, its
\* persisted record has been loaded and no handleSubmit is in flight, the
\* displayed list is that chat's persisted list, whatever was displayed
\* before the chat was opened.
C20_PersistedAuthoritative ==
    (currentChatId # NoChat /\ Loaded /\ handlers = <<>>)
        => messages = db[currentChatId].messages


\* C21: reconciliation by length. On the first page a refresh of the open
\* chat replaces the displayed list by the persisted one whenever the
\* persisted one is longer, also while a turn on that chat is in flight;
\* when the refresh has brought the persisted assistant message of that
\* turn, the reply that arrives afterwards is appended all the same, and
\* the list then holds that message twice.
C21_ReconcileByLength ==
    [][ /\ ( /\ FetchCurrentChat
             /\ Len(db[currentChatId].messages) > Len(messages) )
           => messages' = db[currentChatId].messages
        /\ \A i \in 1..Len(handlers) :
              ( /\ version = 1
                /\ SendResolveOf(i)
                /\ handlers[i].chatId = currentChatId
                /\ currentChatId \in DOMAIN db
                /\ messages = db[currentChatId].messages
                /\ messages # <<>>
                /\ messages[Len(messages)] =
                      AssistantMessage(handlers[i].reply.message,
                                       handlers[i].reply.sources) )
              => /\ Len(messages') = Len(db'[currentChatId].messages) + 1
                 /\ messages'[Len(messages')] = messages'[Len(messages') - 1]
      ]_vars

\* the first page shows the open chat's persisted messages and the last
\* assistant message once more, with no turn in flight
C21_Witness ==
    /\ version = 1
    /\ handlers = <<>>
    /\ currentChatId \in DOMAIN db
    /\ db[currentChatId].messages # <<>>
    /\ LET m == db[currentChatId].messages
       IN  /\ m[Len(m)].role = "assistant"
           /\ messages = Append(m, m[Len(m)])


\* C22: at most one request of handleSubmit is pending at any time, be it
\* a chat.create or a chat.sendMessage: a submit that fires again before
\* the chat creation has completed creates no second chat.
C22_SinglePending ==
    Len(handlers) <= 1


\* C23: the reply of a chat.sendMessage issued for a chat is appended to
\* the displayed list only while that chat is the open one, and in no
\* displayed list does an assistant message stand without a user message
\* directly before it.
C23_ReplyToOpenChat ==
    [][ /\ \A i \in 1..Len(handlers) :
              (SendResolveOf(i) /\ handlers[i].chatId # currentChatId)
              => messages' = messages
        /\ \A k \in 1..Len(messages') :
              messages'[k].role = "assistant"
              => (k > 1 /\ messages'[k - 1].role = "user")
      ]_vars


\* C24: deleting a chat other than the open one leaves the open chat and
\* the displayed list as they are; they are cleared only when the deleted
\* chat is the open one.
C24_DeleteOtherChat ==
    [][ (DeleteChat /\ currentChatId \in DOMAIN db')
        => /\ currentChatId' = currentChatId
           /\ messages' = messages ]_vars

\* C25: the busy flags always clear.  A submit that has set isStreaming is
\* followed by a state where isStreaming is false, whether sendMessage
\* succeeds or fails, and a search that has set isSearching is followed by a
\* state where isSearching is false, on success and on error; once no
\* sendMessage is awaited isStreaming is false, and once the search has
\* settled isSearching is false.
C25_BusyFlagsClear ==
    /\ isStreaming ~> ~isStreaming
    /\ isSearching ~> ~isSearching
    /\ [](isStreaming => \E i \in 1..Len(handlers) : handlers[i].pc = "sending")
    /\ [](isSearching => searchStatus = "pending")

\* a submit and a search have both failed and both flags are clear again
C25_Witness ==
    /\ submits > 0
    /\ handlers = <<>>
    /\ currentChatId # NoChat
    /\ messages = <<>>
    /\ ~isStreaming
    /\ searchStatus = "error"
    /\ ~isSearching

====
